---- MODULE Spec2Model ----
(***************************************************************************)
(* Model of scripts/generate_outbound_lists.py: the weekly outbound list   *)
(* generator.  main() loads candidates.csv, drops domains of the two       *)
(* legacy datasets, enriches each row with a decision maker, scores,       *)
(* de-duplicates, drops domains assigned in the last 365 days, splits the  *)
(* top 100 between the tabs 'Evan' and 'Dave' and rewrites                 *)
(* assignment_history.csv.                                                 *)
(*                                                                         *)
(* Python strings whose characters the code inspects (URLs, domains,       *)
(* industry, employee count, titles) are sequences of one-character        *)
(* strings.  Strings that are only compared or tested for emptiness        *)
(* (company names, e-mail, phone, tab names) are TLA+ strings.             *)
(***************************************************************************)
EXTENDS Integers, Sequences, FiniteSets, TLC

\* ---------------------------------------------------------------------
\* Python values
\* ---------------------------------------------------------------------

\* None (or an absent dict key) where a character sequence is expected.
PyNone == <<"None">>

\* None (or an absent dict key) where a plain string is expected.
PyNoneStr == "<None>"

\* Python truthiness of a str-or-None value held as a character sequence.
Truthy(v) == v # PyNone /\ v # <<>>

\* Python truthiness of a str-or-None value held as a plain string.
TruthyStr(v) == v # PyNoneStr /\ v # ""

UpperChars == <<"A", "B", "C", "D", "E", "F", "G", "H", "I", "J", "K", "L", "M",
                "N", "O", "P", "Q", "R", "S", "T", "U", "V", "W", "X", "Y", "Z">>

LowerChars == <<"a", "b", "c", "d", "e", "f", "g", "h", "i", "j", "k", "l", "m",
                "n", "o", "p", "q", "r", "s", "t", "u", "v", "w", "x", "y", "z">>

UpperSet == {UpperChars[i] : i \in 1..Len(UpperChars)}

LowerOf == [c \in UpperSet |-> LowerChars[CHOOSE i \in 1..Len(UpperChars) : UpperChars[i] = c]]

\* str.lower() on one character.
LowerChar(c) == IF c \in UpperSet THEN LowerOf[c] ELSE c

\* str.lower()
Lower(s) == [i \in 1..Len(s) |-> LowerChar(s[i])]

IsSpace(c) == c = " "

\* str.strip(): drop leading and trailing whitespace.
Strip(s) ==
    LET nonsp == {i \in 1..Len(s) : ~IsSpace(s[i])}
    IN  IF nonsp = {} THEN <<>>
        ELSE LET lo == CHOOSE i \in nonsp : \A j \in nonsp : i <= j
                 hi == CHOOSE i \in nonsp : \A j \in nonsp : j <= i
             IN  SubSeq(s, lo, hi)

\* s.startswith(p)
StartsWith(s, p) == Len(p) <= Len(s) /\ SubSeq(s, 1, Len(p)) = p

\* `p in s` for strings: p occurs as a substring of s.
Contains(s, p) ==
    \E i \in 0..(Len(s) - Len(p)) : SubSeq(s, i + 1, i + Len(p)) = p

\* s.split(sep)[0] for a one-character separator.
SplitFirst(s, sep) ==
    LET hits == {i \in 1..Len(s) : s[i] = sep}
    IN  IF hits = {} THEN s
        ELSE SubSeq(s, 1, (CHOOSE i \in hits : \A j \in hits : i <= j) - 1)

DropPrefix(s, n) == SubSeq(s, n + 1, Len(s))

HttpScheme == <<"h", "t", "t", "p", ":", "/", "/">>

HttpsScheme == <<"h", "t", "t", "p", "s", ":", "/", "/">>

WwwPrefix == <<"w", "w", "w", ".">>

\* re.sub(r"^https?://", "", u)
StripScheme(u) ==
    IF StartsWith(u, HttpsScheme) THEN DropPrefix(u, Len(HttpsScheme))
    ELSE IF StartsWith(u, HttpScheme) THEN DropPrefix(u, Len(HttpScheme))
    ELSE u

\* re.sub(r"^www\.", "", u)
StripWww(u) == IF StartsWith(u, WwwPrefix) THEN DropPrefix(u, Len(WwwPrefix)) ELSE u

\* canonical_domain(url); a non-string argument gives "".
canonical_domain(url) ==
    IF url = PyNone THEN <<>>
    ELSE SplitFirst(SplitFirst(StripWww(StripScheme(Lower(Strip(url)))), "/"), "?")

\* ---------------------------------------------------------------------
\* compute_fit_score
\* ---------------------------------------------------------------------

\* The relevant-sector keywords of compute_fit_score.
IndustryKeywords ==
    { <<"f", "l", "e", "e", "t">>,
      <<"t", "r", "a", "n", "s", "p", "o", "r", "t">>,
      <<"l", "o", "g", "i", "s", "t", "i", "c", "s">>,
      <<"t", "r", "u", "c", "k", "i", "n", "g">>,
      <<"d", "e", "l", "i", "v", "e", "r", "y">>,
      <<"d", "i", "s", "t", "r", "i", "b", "u", "t", "i", "o", "n">> }

Digits == <<"0", "1", "2", "3", "4", "5", "6", "7", "8", "9">>

IsDigit(c) == \E i \in 1..Len(Digits) : Digits[i] = c

DigitValue(c) == (CHOOSE i \in 1..Len(Digits) : Digits[i] = c) - 1

RECURSIVE DecimalValue(_)
DecimalValue(s) ==
    IF s = <<>> THEN 0
    ELSE 10 * DecimalValue(SubSeq(s, 1, Len(s) - 1)) + DigitValue(s[Len(s)])

\* The outcome of float(x): a value, or ValueError raised.
FloatOf(n) == [raised |-> FALSE, val |-> n]

ValueError == [raised |-> TRUE, val |-> 0]

\* float(s) for a str s made of digits, spaces and other characters that
\* are no part of a float literal: surrounding whitespace is ignored, a
\* non-empty run of digits is its decimal value, anything else raises.
PyFloat(s) ==
    LET t == Strip(s)
    IN  IF t # <<>> /\ \A i \in 1..Len(t) : IsDigit(t[i])
        THEN FloatOf(DecimalValue(t))
        ELSE ValueError

\* float(row.get("EmployeeCount")) without the `or 0`: an empty or absent
\* field raises.
EmployeeFloat_no_default(row) ==
    IF Truthy(row.EmployeeCount) THEN PyFloat(row.EmployeeCount) ELSE ValueError

\* float(row.get("EmployeeCount") or 0)
EmployeeFloat(row) ==
    IF Truthy(row.EmployeeCount) THEN PyFloat(row.EmployeeCount) ELSE FloatOf(0)

Min(a, b) == IF a <= b THEN a ELSE b

\* compute_fit_score with the first tier tested as emp > 100.
compute_fit_score_strict_tier(row) ==
    LET industry == Lower(IF row.Industry = PyNone THEN <<>> ELSE row.Industry)
        s1  == IF \E x \in IndustryKeywords : Contains(industry, x) THEN 30 ELSE 0
        emp == EmployeeFloat(row)
        s2  == IF emp.raised THEN 5
               ELSE IF emp.val > 100 THEN 25
               ELSE IF emp.val >= 50 THEN 10
               ELSE 0
        s3  == IF TruthyStr(row.DM1_Email) /\ TruthyStr(row.DM1_DirectPhone) THEN 30
               ELSE IF TruthyStr(row.DM1_Email) \/ TruthyStr(row.DM1_DirectPhone) THEN 10
               ELSE 0
    IN  Min(100, s1 + s2 + s3)

compute_fit_score(row) ==
    LET industry == Lower(IF row.Industry = PyNone THEN <<>> ELSE row.Industry)
        s1  == IF \E x \in IndustryKeywords : Contains(industry, x) THEN 30 ELSE 0
        emp == EmployeeFloat(row)
        s2  == IF emp.raised THEN 5
               ELSE IF emp.val >= 100 THEN 25
               ELSE IF emp.val >= 50 THEN 10
               ELSE 0
        s3  == IF TruthyStr(row.DM1_Email) /\ TruthyStr(row.DM1_DirectPhone) THEN 30
               ELSE IF TruthyStr(row.DM1_Email) \/ TruthyStr(row.DM1_DirectPhone) THEN 10
               ELSE 0
    IN  Min(100, s1 + s2 + s3)

\* ---------------------------------------------------------------------
\* pick_decision_maker
\* ---------------------------------------------------------------------

TITLE_KEYWORDS ==
    << <<"F", "l", "e", "e", "t", " ", "M", "a", "n", "a", "g", "e", "r">>,
       <<"D", "i", "r", "e", "c", "t", "o", "r", " ", "o", "f", " ", "F", "l", "e", "e", "t">>,
       <<"F", "l", "e", "e", "t", " ", "O", "p", "e", "r", "a", "t", "i", "o", "n", "s", " ", "M", "a", "n", "a", "g", "e", "r">>,
       <<"H", "e", "a", "d", " ", "o", "f", " ", "F", "l", "e", "e", "t">>,
       <<"V", "P", " ", "F", "l", "e", "e", "t">>,
       <<"D", "i", "r", "e", "c", "t", "o", "r", " ", "o", "f", " ", "F", "l", "e", "e", "t", " ", "O", "p", "e", "r", "a", "t", "i", "o", "n", "s">>,
       <<"P", "r", "o", "c", "u", "r", "e", "m", "e", "n", "t", " ", "M", "a", "n", "a", "g", "e", "r">>,
       <<"P", "u", "r", "c", "h", "a", "s", "i", "n", "g", " ", "M", "a", "n", "a", "g", "e", "r">>,
       <<"O", "p", "e", "r", "a", "t", "i", "o", "n", "s", " ", "M", "a", "n", "a", "g", "e", "r">>,
       <<"D", "i", "r", "e", "c", "t", "o", "r", " ", "o", "f", " ", "O", "p", "e", "r", "a", "t", "i", "o", "n", "s">>,
       <<"L", "o", "g", "i", "s", "t", "i", "c", "s", " ", "M", "a", "n", "a", "g", "e", "r">>,
       <<"D", "i", "r", "e", "c", "t", "o", "r", " ", "o", "f", " ", "L", "o", "g", "i", "s", "t", "i", "c", "s">>,
       <<"M", "a", "i", "n", "t", "e", "n", "a", "n", "c", "e", " ", "M", "a", "n", "a", "g", "e", "r">>,
       <<"F", "l", "e", "e", "t", " ", "M", "a", "i", "n", "t", "e", "n", "a", "n", "c", "e", " ", "M", "a", "n", "a", "g", "e", "r">>,
       <<"M", "a", "r", "k", "e", "t", "i", "n", "g", " ", "M", "a", "n", "a", "g", "e", "r">>,
       <<"D", "i", "r", "e", "c", "t", "o", "r", " ", "o", "f", " ", "M", "a", "r", "k", "e", "t", "i", "n", "g">> >>

\* The generic seniority words of pick_decision_maker's second loop.
GenericTitleWords ==
    { <<"d", "i", "r", "e", "c", "t", "o", "r">>,
      <<"v", "p">>,
      <<"v", "i", "c", "e">>,
      <<"h", "e", "a", "d">>,
      <<"m", "a", "n", "a", "g", "e", "r">> }

\* None as the result of pick_decision_maker / the value of dm.
NoPerson ==
    [present |-> FALSE, title |-> PyNone, email |-> PyNoneStr,
     phone |-> PyNoneStr, direct_phone |-> PyNoneStr]

\* kw.lower() for each kw of TITLE_KEYWORDS.
LoweredTitleKeywords == [k \in 1..Len(TITLE_KEYWORDS) |-> Lower(TITLE_KEYWORDS[k])]

\* (p.get("title") or "").lower()
TitleOf(p) == Lower(IF Truthy(p.title) THEN p.title ELSE <<>>)

MinOf(S) == CHOOSE x \in S : \A y \in S : x <= y

\* pick_decision_maker with the loops swapped: the first person whose
\* title holds any target role.
pick_decision_maker_person_first(plist) ==
    IF plist = <<>> THEN NoPerson
    ELSE
      LET role == {i \in 1..Len(plist) :
                     \E k \in 1..Len(TITLE_KEYWORDS) :
                        Contains(TitleOf(plist[i]), LoweredTitleKeywords[k])}
          generic == {i \in 1..Len(plist) :
                        \E x \in GenericTitleWords : Contains(TitleOf(plist[i]), x)}
      IN  IF role # {} THEN plist[MinOf(role)]
          ELSE IF generic # {} THEN plist[MinOf(generic)]
          ELSE plist[1]

pick_decision_maker(people) ==
    IF people = <<>> THEN NoPerson
    ELSE
      LET hit(k, i) == Contains(TitleOf(people[i]), LoweredTitleKeywords[k])
          kwHits == {k \in 1..Len(TITLE_KEYWORDS) : \E i \in 1..Len(people) : hit(k, i)}
          generic == {i \in 1..Len(people) :
                        \E x \in GenericTitleWords : Contains(TitleOf(people[i]), x)}
      IN  IF kwHits # {}
          THEN people[MinOf({i \in 1..Len(people) : hit(MinOf(kwHits), i)})]
          ELSE IF generic # {} THEN people[MinOf(generic)]
          ELSE people[1]

\* People the directory returns.
TitleFleetMgr == <<"F", "l", "e", "e", "t", " ", "M", "a", "n", "a", "g", "e", "r">>

TitleIntern == <<"I", "n", "t", "e", "r", "n">>

PersonMgr ==
    [present |-> TRUE, title |-> TitleFleetMgr, email |-> "m@x", phone |-> "555",
     direct_phone |-> PyNoneStr]

PersonIntern ==
    [present |-> TRUE, title |-> TitleIntern, email |-> "i@x", phone |-> PyNoneStr,
     direct_phone |-> ""]

PeopleLists == {<<>>, <<PersonIntern, PersonMgr>>}

\* dm = pick_decision_maker(people) for the lists of the model.
DecisionMakerOf == [people \in PeopleLists |-> pick_decision_maker(people)]

\* ---------------------------------------------------------------------
\* Scheduling
\* ---------------------------------------------------------------------

\* should_run_today_and_hour(): weekday is today_local.weekday() (Mon=0),
\* todayHoliday / fridayHoliday are the lookups in holidays.CA(prov='BC'),
\* in_window is start <= now_local < end.
should_run_today_and_hour(weekday, todayHoliday, fridayHoliday, in_window) ==
    IF weekday = 4 /\ ~todayHoliday THEN in_window
    ELSE IF weekday = 3 /\ fridayHoliday THEN in_window
    ELSE FALSE

\* ---------------------------------------------------------------------
\* Dates and the text of the WeekAssigned column
\* ---------------------------------------------------------------------

\* timedelta(days=365) of in_12_months.
WINDOW_DAYS == 365

\* An instant (naive UTC datetime) is a number of hours.
Instant(day, hour) == day * 24 + hour

DayOf(t) == t \div 24

\* The text of a WeekAssigned cell: "YYYY-MM-DD" (form "date"),
\* "YYYY-MM-DD 00:00:00" (form "datetime", what str(Timestamp) gives) or a
\* text that is no date (form "bad").
DateText(d) == [form |-> "date", day |-> d]

DateTimeText(d) == [form |-> "datetime", day |-> d]

BadText == [form |-> "bad", day |-> 0]

\* datetime.utcnow().strftime("%Y-%m-%d")
StrfDate(t) == DateText(DayOf(t))

\* pd.to_datetime(text, errors="coerce"): NaT for a text that is no date.
ToDatetime(text) ==
    IF text.form = "bad" THEN [nat |-> TRUE, at |-> 0]
    ELSE [nat |-> FALSE, at |-> Instant(text.day, 0)]

\* ---------------------------------------------------------------------
\* assignment_history.csv
\* ---------------------------------------------------------------------

\* already_ran_for_week(week_assigned_str) on the ledger file: the cells
\* are compared as text.
already_ran_for_week(file, week) ==
    /\ file.exists
    /\ \E i \in 1..Len(file.rows) : file.rows[i].WeekAssigned = week

\* The frame pd.read_csv(..., parse_dates=["WeekAssigned"]) gives: the
\* column is datetime64 when every cell parses, and keeps its text otherwise.
ColumnParses(rows) == \A i \in 1..Len(rows) : ~ToDatetime(rows[i].WeekAssigned).nat

\* load_assignment_history(): the frame has the lower-case "domain" column
\* only when the file exists and was read with its "Domain" column; every
\* failure gives the empty frame of the five ledger columns.
load_assignment_history(file) ==
    IF file.exists /\ file.hasDomainCol
    THEN [hasDomain |-> TRUE,
          parsed    |-> ColumnParses(file.rows),
          rows      |-> [i \in 1..Len(file.rows) |->
                           [rec |-> file.rows[i],
                            domain |-> canonical_domain(file.rows[i].Domain)]]]
    ELSE [hasDomain |-> FALSE, parsed |-> FALSE, rows |-> <<>>]

\* history_df["domain"] raises KeyError on a frame without that column.
in_12_months_raises(domain, history_df) ==
    domain # <<>> /\ ~history_df.hasDomain

\* in_12_months with a date that could not be parsed counted as recent.
in_12_months_nat_recent(domain, history_df, now) ==
    IF domain = <<>> THEN FALSE
    ELSE LET cutoff == now - Instant(WINDOW_DAYS, 0)
         IN  \E i \in 1..Len(history_df.rows) :
               LET r == history_df.rows[i]
                   d == ToDatetime(r.rec.WeekAssigned)
               IN  r.domain = domain /\ (d.nat \/ d.at >= cutoff)

\* in_12_months(domain, history_df) with datetime.utcnow() = now.
in_12_months(domain, history_df, now) ==
    IF domain = <<>> THEN FALSE
    ELSE LET cutoff == now - Instant(WINDOW_DAYS, 0)
         IN  \E i \in 1..Len(history_df.rows) :
               LET r == history_df.rows[i]
                   d == ToDatetime(r.rec.WeekAssigned)
               IN  r.domain = domain /\ ~d.nat /\ d.at >= cutoff

\* main.domain_in_recent(domain)
domain_in_recent(domain, history_df, now) ==
    IF ~Truthy(domain) THEN FALSE ELSE in_12_months(domain, history_df, now)

\* history_record stamping every record with the first tab's rep.
history_record_one_rep(r, week) ==
    [Domain |-> r.Domain, CompanyName |-> r.CompanyName,
     AssignedRep |-> "Evan", WeekAssigned |-> week, LastDisposition |-> ""]

\* The dict main() appends to hist for a row of top100.
history_record(r, week) ==
    [Domain |-> r.Domain, CompanyName |-> r.CompanyName,
     AssignedRep |-> r.AssignedRep, WeekAssigned |-> week, LastDisposition |-> ""]

\* hist.to_csv(): how a row read from the file is written back.  A parsed
\* (datetime64) column that received appended text rows is an object column
\* of Timestamps and strings, and a Timestamp is written as
\* "YYYY-MM-DD 00:00:00"; a parsed column with nothing appended is written
\* date-only; a text column is written as read.
rewrite_row(rec, parsed, appended) ==
    IF ~parsed THEN rec
    ELSE IF appended THEN [rec EXCEPT !.WeekAssigned = DateTimeText(rec.WeekAssigned.day)]
    ELSE [rec EXCEPT !.WeekAssigned = DateText(rec.WeekAssigned.day)]

\* The file main() leaves: hist = load_assignment_history(), one appended
\* record per row of top100, hist.to_csv(ASSIGNMENT_HISTORY).  The helper
\* column "domain" that a readable ledger carries is written too; it is
\* recomputed on every load and is not part of a record here.
write_history(file, top, week) ==
    LET hist == load_assignment_history(file)
        old  == [i \in 1..Len(hist.rows) |->
                   rewrite_row(hist.rows[i].rec, hist.parsed, top # <<>>)]
        new  == [i \in 1..Len(top) |-> history_record(top[i], week)]
    IN  [exists |-> TRUE, hasDomainCol |-> TRUE, rows |-> old \o new]

\* ---------------------------------------------------------------------
\* Frames: a DataFrame is the sequence of its rows, in index order
\* ---------------------------------------------------------------------

RECURSIVE SelectIdx(_, _, _)
SelectIdx(rows, keep, i) ==
    IF i > Len(rows) THEN <<>>
    ELSE (IF i \in keep THEN <<rows[i]>> ELSE <<>>) \o SelectIdx(rows, keep, i + 1)

\* df[mask]: the rows whose position is in keep, in order.
Pick(rows, keep) == SelectIdx(rows, keep, 1)

\* df.head(n)
HeadRows(rows, n) == SubSeq(rows, 1, Min(n, Len(rows)))

\* ---------------------------------------------------------------------
\* Legacy datasets and the candidate file
\* ---------------------------------------------------------------------

\* The canonical domains of one column (fillna("") leaves "" for a blank).
ColumnDomains(cells) == {canonical_domain(cells[i]) : i \in 1..Len(cells)}

\* PriorFileDomains reading the Website column only.
PriorFileDomains_website_only(f) ==
    IF ~f.readable THEN {}
    ELSE IF f.hasWebsite THEN ColumnDomains(f.Website) ELSE {}

\* What one legacy file adds to read_prior_domains' set; an unreadable
\* file is skipped by the except clause.
PriorFileDomains(f) ==
    IF ~f.readable THEN {}
    ELSE (IF f.hasWebsite THEN ColumnDomains(f.Website) ELSE {})
         \cup (IF f.hasDomain THEN ColumnDomains(f.Domain) ELSE {})

\* read_prior_domains() over [PRIOR_GROK_EVAN, PRIOR_GROK_DAVE].
read_prior_domains(files) ==
    {d \in UNION {PriorFileDomains(files[i]) : i \in 1..Len(files)} : d # <<>>}

\* canonicalize_candidates(df) followed by main()'s
\* df["canonical_domain"] = df["Domain"].apply(canonical_domain): the
\* normaliser is applied twice.  A file without a Website column behaves
\* as one whose Website cells are all "".
CandidateDomain(r) == canonical_domain(canonical_domain(r.Website))

\* The candidate frame main() enriches: the rows of candidates.csv whose
\* canonical_domain is not in prior_domains, each with its index label.
load_candidates(file, prior_domains) ==
    Pick([i \in 1..Len(file) |-> [idx |-> i, src |-> file[i],
                                  Domain |-> canonical_domain(file[i].Website),
                                  canonical_domain |-> CandidateDomain(file[i])]],
         {i \in 1..Len(file) : CandidateDomain(file[i]) \notin prior_domains})

\* r.get("Company") or r.get("CompanyName") or r.get("company") or ""
CompanyOf(src) ==
    IF TruthyStr(src.Company) THEN src.Company
    ELSE IF TruthyStr(src.CompanyName) THEN src.CompanyName
    ELSE IF TruthyStr(src.company) THEN src.company
    ELSE ""

\* The people main() hands to pick_decision_maker: the domain search when
\* there is a domain and it found somebody, else the company search
\* (apollo_people_by_company returns [] for an empty company).
ResolvePeople(domain, company, byDomain, byCompany) ==
    IF Truthy(domain) /\ byDomain # <<>> THEN byDomain
    ELSE IF company # "" THEN byCompany
    ELSE <<>>

StrOrEmpty(v) == IF TruthyStr(v) THEN v ELSE ""

\* The dict main() appends to `enriched` for candidate row r.  Columns
\* that are copied through unread (city, state, country, fleet size,
\* source, notes, name, LinkedIn, verification flags) are left out.
enrich_row(r, people) ==
    LET dm    == DecisionMakerOf[people]
        phone == IF dm.present THEN StrOrEmpty(dm.phone) ELSE ""
    IN  [idx           |-> r.idx,
         CompanyName   |-> CompanyOf(r.src),
         Website       |-> r.src.Website,
         Domain        |-> r.canonical_domain,
         Industry      |-> r.src.Industry,
         EmployeeCount |-> r.src.EmployeeCount,
         DM1_Title     |-> IF dm.present /\ Truthy(dm.title) THEN dm.title ELSE <<>>,
         DM1_Email     |-> IF dm.present THEN StrOrEmpty(dm.email) ELSE "",
         DM1_DirectPhone |-> IF phone # "" THEN phone
                             ELSE IF dm.present THEN StrOrEmpty(dm.direct_phone)
                             ELSE ""]

\* ---------------------------------------------------------------------
\* Scoring, de-duplication, allocation
\* ---------------------------------------------------------------------

\* df_en["FitScore"] = df_en.apply(compute_fit_score, axis=1)
with_fit_score(rows) ==
    [i \in 1..Len(rows) |-> [FitScore |-> compute_fit_score(rows[i])] @@ rows[i]]

IndexOrders(n) ==
    {p \in [1..n -> 1..n] : \A i, j \in 1..n : i # j => p[i] # p[j]}

\* sort_values("FitScore", ascending=False): the default sort is not
\* stable, so every order that is non-increasing in FitScore is possible.
sort_values(rows) ==
    {[i \in 1..Len(rows) |-> rows[p[i]]] :
       p \in {q \in IndexOrders(Len(rows)) :
                \A i \in 1..(Len(rows) - 1) :
                   rows[q[i]].FitScore >= rows[q[i + 1]].FitScore}}

SamePair(a, b) == a.Domain = b.Domain /\ a.CompanyName = b.CompanyName

\* drop_duplicates with keep="last".
drop_duplicates_keep_last(rows) ==
    Pick(rows, {i \in 1..Len(rows) :
                  ~\E j \in (i + 1)..Len(rows) : SamePair(rows[j], rows[i])})

\* drop_duplicates(subset=["Domain","CompanyName"], keep="first")
drop_duplicates(rows) ==
    Pick(rows, {i \in 1..Len(rows) : ~\E j \in 1..(i - 1) : SamePair(rows[j], rows[i])})

\* df_en = df_en[~df_en["recent_assigned"]]
history_filter(rows, history_df, now) ==
    Pick(rows, {i \in 1..Len(rows) : ~domain_in_recent(rows[i].Domain, history_df, now)})

\* df_en.head(100)
BATCH_SIZE == 100

\* .head(50) of evan_df and dave_df
BUCKET_CAP == 50

\* The alternation written with i%3.
rep_for_position_thirds(i) == IF i % 3 = 0 THEN "Evan" ELSE "Dave"

\* "Evan" if i%2==0 else "Dave", for the 0-based position i.
rep_for_position(i) == IF i % 2 = 0 THEN "Evan" ELSE "Dave"

\* assign_reps cutting the batch from the end of the frame.
assign_reps_tail(rows) ==
    LET top == SubSeq(rows, Len(rows) - Min(BATCH_SIZE, Len(rows)) + 1, Len(rows))
    IN  [i \in 1..Len(top) |-> [AssignedRep |-> rep_for_position(i - 1)] @@ top[i]]

\* top100 with its AssignedRep column.
assign_reps(rows) ==
    LET top == HeadRows(rows, BATCH_SIZE)
    IN  [i \in 1..Len(top) |-> [AssignedRep |-> rep_for_position(i - 1)] @@ top[i]]

\* top100[top100["AssignedRep"]==rep].head(50)
bucket(top, rep) ==
    HeadRows(Pick(top, {i \in 1..Len(top) : top[i].AssignedRep = rep}), BUCKET_CAP)

\* ---------------------------------------------------------------------
\* The sheet
\* ---------------------------------------------------------------------

SheetRow(kind, company, domain, score, rep, week) ==
    [kind |-> kind, CompanyName |-> company, Domain |-> domain,
     FitScore |-> score, AssignedRep |-> rep, WeekAssigned |-> week]

\* to_sheet_rows(df_block, rep): of the 24 cells of a row the model keeps
\* company, domain, score, rep and week.
to_sheet_rows(block, rep, week) ==
    [i \in 1..Len(block) |->
       SheetRow("data", block[i].CompanyName, block[i].Domain,
                block[i].FitScore, rep, week)]

\* What append_weekly_block_to_sheet appends to a tab: the "Week: ..."
\* row, the column names, the data rows, a blank row.
weekly_block(rows, week) ==
    <<SheetRow("week", "", <<>>, 0, "", week),
      SheetRow("columns", "", <<>>, 0, "", BadText)>>
    \o rows \o
    <<SheetRow("blank", "", <<>>, 0, "", BadText)>>

\* ---------------------------------------------------------------------
\* Inputs of the model: candidate rows, directory answers, ledgers
\* ---------------------------------------------------------------------

UrlA == <<"h", "t", "t", "p", ":", "/", "/", "w", "w", "w", ".", "a", ".", "c", "o", "/", "x">>

UrlA2 == <<"A", ".", "c", "o">>

UrlB == <<"b", ".", "c", "o">>

UrlLegacyB == <<"h", "t", "t", "p", "s", ":", "/", "/", "w", "w", "w", ".", "B", ".", "c", "o", "/", "a", "b", "o", "u", "t", "?", "x">>

DomA == <<"a", ".", "c", "o">>

DomB == <<"b", ".", "c", "o">>

DomWwwB == <<"W", "W", "W", ".", "b", ".", "c", "o">>

IndFleet == <<"F", "l", "e", "e", "t">>

IndSoft == <<"S", "o", "f", "t", "w", "a", "r", "e">>

IndTruck == <<"T", "R", "U", "C", "K", "I", "N", "G">>

Emp100 == <<"1", "0", "0">>

Emp50 == <<"5", "0">>

EmpBad == <<"x">>

\* Rows of candidates.csv (dtype=str, fillna("")).
CandAcmeWeb ==
    [Company |-> "Acme", CompanyName |-> "", company |-> "", Website |-> UrlA,
     Industry |-> IndFleet, EmployeeCount |-> Emp100]

CandAcmeBare ==
    [Company |-> "", CompanyName |-> "Acme", company |-> "", Website |-> UrlA2,
     Industry |-> IndSoft, EmployeeCount |-> EmpBad]

CandBeta ==
    [Company |-> "Beta", CompanyName |-> "", company |-> "", Website |-> UrlB,
     Industry |-> IndTruck, EmployeeCount |-> Emp50]

CandNoSite ==
    [Company |-> "", CompanyName |-> "", company |-> "Acme", Website |-> <<>>,
     Industry |-> <<>>, EmployeeCount |-> <<>>]

CandidateRows == {CandAcmeWeb, CandAcmeBare, CandBeta, CandNoSite}

\* The longest candidates.csv of the model.
MaxCands == 2

CandidateFiles == UNION {[1..n -> CandidateRows] : n \in 0..MaxCands}

\* Ledger files.
LedgerRow(domain, company, rep, week) ==
    [Domain |-> domain, CompanyName |-> company, AssignedRep |-> rep,
     WeekAssigned |-> week, LastDisposition |-> ""]

LedgerFile(rows) == [exists |-> TRUE, hasDomainCol |-> TRUE, rows |-> rows]

NoLedgerFile == [exists |-> FALSE, hasDomainCol |-> FALSE, rows |-> <<>>]

\* A ledger whose header has no "Domain" column.
LedgerNoDomainCol ==
    [exists |-> TRUE, hasDomainCol |-> FALSE,
     rows |-> <<LedgerRow(<<>>, "Acme", "Evan", DateText(365))>>]

LedgerFixtures ==
    { NoLedgerFile,
      LedgerFile(<<>>),
      LedgerFile(<<LedgerRow(DomA, "Acme", "Evan", DateText(0))>>),
      LedgerFile(<<LedgerRow(DomWwwB, "Beta", "Dave", DateTimeText(1)),
                   LedgerRow(DomA, "Acme", "Evan", BadText)>>),
      LedgerNoDomainCol }

\* The two legacy datasets.
PriorFile(readable, hasWebsite, website, hasDomain, domain) ==
    [readable |-> readable, hasWebsite |-> hasWebsite, Website |-> website,
     hasDomain |-> hasDomain, Domain |-> domain]

UnreadablePrior == PriorFile(FALSE, FALSE, <<>>, FALSE, <<>>)

PriorFixtures ==
    { <<UnreadablePrior, UnreadablePrior>>,
      <<PriorFile(TRUE, TRUE, <<UrlLegacyB, <<>> >>, FALSE, <<>>), UnreadablePrior>>,
      <<PriorFile(TRUE, FALSE, <<>>, FALSE, <<>>),
        PriorFile(TRUE, FALSE, <<>>, TRUE, <<DomA>>)>> }

\* The instants at which a run can start, and the WEEK_ASSIGNED overrides.
Instants == {Instant(365, 0), Instant(365, 17), Instant(366, 0)}

WeekOverrides == {DateText(0)}

ScheduleInputs ==
    [weekday : 0..6, todayHoliday : BOOLEAN, fridayHoliday : BOOLEAN, in_window : BOOLEAN]

ShouldRun(s) ==
    should_run_today_and_hour(s.weekday, s.todayHoliday, s.fridayHoliday, s.in_window)

\* ---------------------------------------------------------------------
\* State
\* ---------------------------------------------------------------------

\* The number of runs of main() in a behaviour.
MaxRuns == 2

VARIABLES
    pc,             \* where the current run of main() is
    budget,         \* runs still to start
    now,            \* datetime.utcnow() of the current run
    week,           \* WEEK_ASSIGNED of the current run
    ledger,         \* assignment_history.csv
    sheet,          \* the rows of the tabs 'Evan' and 'Dave'
    prior,          \* the two legacy datasets
    df,             \* candidates after the permanent exclusion
    history_df,     \* load_assignment_history() at the start of the run
    enriched,       \* the list `enriched`
    scored,         \* df_en with FitScore, sorted
    deduped,        \* df_en after drop_duplicates
    df_en,          \* df_en after the rolling exclusion
    top100,         \* top100 with AssignedRep
    evan_rows,      \* to_sheet_rows(evan_df, "Evan")
    dave_rows,      \* to_sheet_rows(dave_df, "Dave")
    candidates,     \* candidates.csv as read by the current run
    people,         \* the list handed to pick_decision_maker at line 310
    dm,             \* what that call returned
    ledger0,        \* the ledger file when the current run started
    sheet0,         \* the tabs when the current run started
    completedWeeks, \* WEEK_ASSIGNED of the earlier runs that ran to the end
    datedRuns       \* each of those runs had WEEK_ASSIGNED = its UTC date

vars ==
    <<pc, budget, now, week, ledger, sheet, prior, df, history_df, enriched, scored,
      deduped, df_en, top100, evan_rows, dave_rows, candidates, people, dm, ledger0,
      sheet0, completedWeeks, datedRuns>>

locals == <<df, history_df, enriched, scored, deduped, df_en, top100, evan_rows,
            dave_rows, candidates>>

EmptyFrame == [hasDomain |-> FALSE, parsed |-> FALSE, rows |-> <<>>]

FirstInstant == CHOOSE t \in Instants : \A u \in Instants : t <= u

NoLocals ==
    /\ df = <<>> /\ history_df = EmptyFrame /\ enriched = <<>> /\ scored = <<>>
    /\ deduped = <<>> /\ df_en = <<>> /\ top100 = <<>> /\ evan_rows = <<>>
    /\ dave_rows = <<>> /\ candidates = <<>>
    /\ people = <<>> /\ dm = NoPerson

\* The state before the first of `runs` runs of main().
InitWith(runs) ==
    /\ pc = "idle"
    /\ budget = runs
    /\ now = FirstInstant
    /\ week = StrfDate(FirstInstant)
    /\ ledger \in LedgerFixtures
    /\ sheet = [Evan |-> <<>>, Dave |-> <<>>]
    /\ prior \in PriorFixtures
    /\ NoLocals
    /\ ledger0 = ledger
    /\ sheet0 = sheet
    /\ completedWeeks = {}
    /\ datedRuns = TRUE

Init == InitWith(MaxRuns)

\* ---------------------------------------------------------------------
\* A run of main()
\* ---------------------------------------------------------------------

\* The process starts: the module constants are computed (WEEK_ASSIGNED
\* from the environment or from today's UTC date).
StartRun ==
    /\ pc = "idle"
    /\ budget > 0
    /\ \E t \in {u \in Instants : u >= now} :
         \E w \in {StrfDate(t)} \cup WeekOverrides :
            /\ now' = t
            /\ week' = w
    /\ pc' = "gate"
    /\ budget' = budget - 1
    /\ ledger0' = ledger
    /\ sheet0' = sheet
    /\ UNCHANGED <<people, dm, ledger, sheet, prior, locals, completedWeeks,
                   datedRuns>>

\* if not should_run_today_and_hour(): return
main_not_scheduled ==
    /\ pc = "gate"
    /\ \E s \in ScheduleInputs : ~ShouldRun(s)
    /\ pc' = "skipped"
    /\ UNCHANGED <<people, dm, budget, now, week, ledger, sheet, prior, locals, ledger0, sheet0,
                   completedWeeks,
                   datedRuns>>

\* if already_ran_for_week(WEEK_ASSIGNED): return
main_already_ran ==
    /\ pc = "gate"
    /\ \E s \in ScheduleInputs : ShouldRun(s)
    /\ already_ran_for_week(ledger, week)
    /\ pc' = "skipped"
    /\ UNCHANGED <<people, dm, budget, now, week, ledger, sheet, prior, locals, ledger0, sheet0,
                   completedWeeks,
                   datedRuns>>

\* candidates.csv does not exist: raise SystemExit
main_no_candidates ==
    /\ pc = "gate"
    /\ \E s \in ScheduleInputs : ShouldRun(s)
    /\ ~already_ran_for_week(ledger, week)
    /\ pc' = "exit"
    /\ UNCHANGED <<people, dm, budget, now, week, ledger, sheet, prior, locals, ledger0, sheet0,
                   completedWeeks,
                   datedRuns>>

\* Load candidates.csv, drop the legacy domains, load the history.
main_load_from(files) ==
    /\ pc = "gate"
    /\ \E s \in ScheduleInputs : ShouldRun(s)
    /\ ~already_ran_for_week(ledger, week)
    /\ \E file \in files :
         /\ candidates' = file
         /\ df' = load_candidates(file, read_prior_domains(prior))
    /\ history_df' = load_assignment_history(ledger)
    /\ pc' = "enrich"
    /\ UNCHANGED <<people, dm, budget, now, week, ledger, sheet, prior, enriched, scored, deduped,
                   df_en, top100, evan_rows, dave_rows, ledger0, sheet0, completedWeeks,
                   datedRuns>>

main_load == main_load_from(CandidateFiles)

\* The enrichment loop: one directory answer per lookup.  The loop's own
\* `people` and `dm` are not read after it; the variables of those names
\* hold the call that is studied on its own.
main_enrich ==
    /\ pc = "enrich"
    /\ \E answers \in [1..Len(df) -> PeopleLists \X PeopleLists] :
         enriched' =
           [i \in 1..Len(df) |->
              enrich_row(df[i],
                         ResolvePeople(df[i].canonical_domain, CompanyOf(df[i].src),
                                       answers[i][1], answers[i][2]))]
    /\ pc' = "score"
    /\ UNCHANGED <<people, dm, budget, now, week, ledger, sheet, prior, df, history_df, scored,
                   deduped, df_en, top100, evan_rows, dave_rows, candidates, ledger0,
                   sheet0, completedWeeks, datedRuns>>

\* FitScore, sort_values, drop_duplicates.
main_score_dedup ==
    /\ pc = "score"
    /\ \E order \in sort_values(with_fit_score(enriched)) :
         /\ scored' = order
         /\ deduped' = drop_duplicates(order)
    /\ pc' = "filter"
    /\ UNCHANGED <<people, dm, budget, now, week, ledger, sheet, prior, df, history_df, enriched,
                   df_en, top100, evan_rows, dave_rows, candidates, ledger0, sheet0,
                   completedWeeks,
                   datedRuns>>

\* df_en["Domain"].apply(domain_in_recent) raises KeyError when the frame
\* was built from no row (it has no "Domain" column) and when in_12_months
\* reads history_df["domain"] of a frame without that column.
FilterRaises ==
    \/ deduped = <<>>
    \/ \E i \in 1..Len(deduped) : in_12_months_raises(deduped[i].Domain, history_df)

main_filter_crash ==
    /\ pc = "filter"
    /\ FilterRaises
    /\ pc' = "crashed"
    /\ UNCHANGED <<people, dm, budget, now, week, ledger, sheet, prior, locals, ledger0, sheet0,
                   completedWeeks,
                   datedRuns>>

main_history_filter ==
    /\ pc = "filter"
    /\ ~FilterRaises
    /\ df_en' = history_filter(deduped, history_df, now)
    /\ pc' = "allocate"
    /\ UNCHANGED <<people, dm, budget, now, week, ledger, sheet, prior, df, history_df, enriched,
                   scored, deduped, top100, evan_rows, dave_rows, candidates, ledger0,
                   sheet0, completedWeeks, datedRuns>>

\* top100, AssignedRep, evan_df / dave_df and their sheet rows.
main_allocate ==
    /\ pc = "allocate"
    /\ top100' = assign_reps(df_en)
    /\ evan_rows' = to_sheet_rows(bucket(assign_reps(df_en), "Evan"), "Evan", week)
    /\ dave_rows' = to_sheet_rows(bucket(assign_reps(df_en), "Dave"), "Dave", week)
    /\ pc' = "appendEvan"
    /\ UNCHANGED <<people, dm, budget, now, week, ledger, sheet, prior, df, history_df, enriched,
                   scored, deduped, df_en, candidates, ledger0, sheet0, completedWeeks,
                   datedRuns>>

\* append_evan_exit with the credentials looked at after the header rows
\* went out.
append_evan_exit_late ==
    /\ pc = "appendEvan"
    /\ \E sa_json \in {"missing", "invalid"} : TRUE
    /\ sheet' = [sheet EXCEPT !.Evan = @ \o weekly_block(<<>>, week)]
    /\ pc' = "exit"
    /\ UNCHANGED <<people, dm, budget, now, week, ledger, prior, locals, ledger0, sheet0,
                   completedWeeks,
                   datedRuns>>

\* append_weekly_block_to_sheet("Evan", ...) without usable credentials:
\* SystemExit before the first append_row.
append_evan_exit ==
    /\ pc = "appendEvan"
    /\ \E sa_json \in {"missing", "invalid"} : TRUE
    /\ pc' = "exit"
    /\ UNCHANGED <<people, dm, budget, now, week, ledger, sheet, prior, locals, ledger0, sheet0,
                   completedWeeks,
                   datedRuns>>

append_evan ==
    /\ pc = "appendEvan"
    /\ sheet' = [sheet EXCEPT !.Evan = @ \o weekly_block(evan_rows, week)]
    /\ pc' = "appendDave"
    /\ UNCHANGED <<people, dm, budget, now, week, ledger, prior, locals, ledger0, sheet0,
                   completedWeeks,
                   datedRuns>>

\* The credentials are a module constant: the second call sees what the
\* first saw.
append_dave ==
    /\ pc = "appendDave"
    /\ sheet' = [sheet EXCEPT !.Dave = @ \o weekly_block(dave_rows, week)]
    /\ pc' = "history"
    /\ UNCHANGED <<people, dm, budget, now, week, ledger, prior, locals, ledger0, sheet0,
                   completedWeeks,
                   datedRuns>>

\* hist = load_assignment_history(); hist.append(...); hist.to_csv(...)
main_write_history ==
    /\ pc = "history"
    /\ ledger' = write_history(ledger, top100, week)
    /\ pc' = "done"
    /\ UNCHANGED <<people, dm, budget, now, week, sheet, prior, locals, ledger0, sheet0,
                   completedWeeks,
                   datedRuns>>

\* The process ends.
EndRun ==
    /\ pc \in {"done", "skipped", "exit", "crashed"}
    /\ pc' = "idle"
    /\ completedWeeks' = IF pc = "done" THEN completedWeeks \cup {week} ELSE completedWeeks
    /\ datedRuns' = (datedRuns /\ (pc = "done" => week = StrfDate(now)))
    /\ df' = <<>> /\ history_df' = EmptyFrame /\ enriched' = <<>> /\ scored' = <<>>
    /\ deduped' = <<>> /\ df_en' = <<>> /\ top100' = <<>> /\ evan_rows' = <<>>
    /\ dave_rows' = <<>> /\ candidates' = <<>>
    /\ UNCHANGED <<people, dm, budget, now, week, ledger, sheet, prior, ledger0, sheet0>>

Next ==
    \/ StartRun
    \/ main_not_scheduled
    \/ main_already_ran
    \/ main_no_candidates
    \/ main_load
    \/ main_enrich
    \/ main_score_dedup
    \/ main_filter_crash
    \/ main_history_filter
    \/ main_allocate
    \/ append_evan_exit
    \/ append_evan
    \/ append_dave
    \/ main_write_history
    \/ EndRun

Spec == Init /\ [][Next]_vars

\* One run of main(), from every ledger and legacy dataset of the model.
InitRun == InitWith(1)

SpecRun == InitRun /\ [][Next]_vars

\* ---------------------------------------------------------------------
\* compute_fit_score and drop_duplicates on their own: the frame that
\* line 331 builds is drawn from bounded sets and lines 332-333 act on it
\* ---------------------------------------------------------------------

\* The longest EmployeeCount text drawn from EmpChars.
MaxEmpLen == 3

EmpChars == {"0", "1", "4", "5", "9", "x", " "}

Emp120 == <<"1", "2", "0">>

EmpNotANumber == <<"n", "o", "t", "-", "a", "-", "n", "u", "m", "b", "e", "r">>

EmployeeTexts ==
    UNION {[1..n -> EmpChars] : n \in 0..MaxEmpLen} \cup {Emp120, EmpNotANumber, PyNone}

IndFleetLogistics == <<"F", "l", "e", "e", "t", " ", "L", "o", "g", "i", "s", "t", "i", "c", "s">>

IndTransportation == <<"T", "r", "a", "n", "s", "p", "o", "r", "t", "a", "t", "i", "o", "n">>

IndNearMiss == <<"F", "l", "e", "e", " ", "t">>

IndustryTexts ==
    {<<>>, PyNone, IndFleet, IndSoft, IndTruck, IndFleetLogistics, IndTransportation,
     IndNearMiss}

ContactTexts(present) == {PyNoneStr, "", present}

\* One-row frames that vary every field compute_fit_score reads.
ScoreFrames ==
    {<<[idx |-> 1, CompanyName |-> "Acme", Website |-> <<>>, Domain |-> DomA,
        Industry |-> ind, EmployeeCount |-> emp, DM1_Title |-> <<>>,
        DM1_Email |-> mail, DM1_DirectPhone |-> phone]>> :
       ind \in IndustryTexts, emp \in EmployeeTexts,
       mail \in ContactTexts("m@x"), phone \in ContactTexts("555")}

\* The longest frame handed to drop_duplicates.
MaxDedupRows == 3

DedupRow(i, domain, company, ind, mail) ==
    [idx |-> i, CompanyName |-> company, Website |-> domain, Domain |-> domain,
     Industry |-> ind, EmployeeCount |-> Emp100, DM1_Title |-> <<>>,
     DM1_Email |-> mail, DM1_DirectPhone |-> mail]

DedupChoices ==
    [domain : {DomA, <<>>}, company : {"Acme", "Beta"}, mail : {"", "m@x"}]

DedupFrames ==
    UNION {{[i \in 1..n |-> DedupRow(i, c[i].domain, c[i].company, IndFleet, c[i].mail)] :
              c \in [1..n -> DedupChoices]} : n \in 0..MaxDedupRows}

\* main() at line 332 with `enriched` given.
InitAt(stage) ==
    /\ pc = stage
    /\ budget = 0
    /\ now = FirstInstant
    /\ week = StrfDate(FirstInstant)
    /\ ledger = LedgerFile(<<>>)
    /\ sheet = [Evan |-> <<>>, Dave |-> <<>>]
    /\ prior = <<UnreadablePrior, UnreadablePrior>>
    /\ df = <<>> /\ history_df = load_assignment_history(LedgerFile(<<>>))
    /\ scored = <<>> /\ deduped = <<>> /\ top100 = <<>>
    /\ evan_rows = <<>> /\ dave_rows = <<>> /\ candidates = <<>>
    /\ people = <<>> /\ dm = NoPerson
    /\ ledger0 = ledger
    /\ sheet0 = sheet
    /\ completedWeeks = {}
    /\ datedRuns = TRUE

InitScore ==
    /\ InitAt("score")
    /\ enriched \in ScoreFrames \cup DedupFrames
    /\ df_en = <<>>

NextScore == main_score_dedup

SpecScore == InitScore /\ [][NextScore]_vars

\* ---------------------------------------------------------------------
\* The allocation on its own: main() at line 342 with df_en given
\* ---------------------------------------------------------------------

\* The longest filtered frame handed to the allocation.
MaxFiltered == 101

\* A domain that is different for every index below 1000.
DomainOfIndex(i) ==
    <<Digits[((i \div 100) % 10) + 1], Digits[((i \div 10) % 10) + 1], Digits[(i % 10) + 1],
      ".", "c", "o">>

\* A filtered frame of n rows: distinct domains, FitScore non-increasing.
FilteredFrame(n) ==
    [i \in 1..n |->
       [idx |-> i, CompanyName |-> "Acme", Website |-> DomainOfIndex(i),
        Domain |-> DomainOfIndex(i), Industry |-> IndFleet, EmployeeCount |-> Emp100,
        DM1_Title |-> <<>>, DM1_Email |-> "", DM1_DirectPhone |-> "",
        FitScore |-> IF i <= n \div 2 THEN 55 ELSE 30]]

InitAlloc ==
    /\ InitAt("allocate")
    /\ enriched = <<>>
    /\ \E n \in 0..MaxFiltered : df_en = FilteredFrame(n)

NextAlloc == main_allocate

SpecAlloc == InitAlloc /\ [][NextAlloc]_vars

\* ---------------------------------------------------------------------
\* canonical_domain on its own: main() at line 278 with the frame of
\* line 277 given, one row whose Website is drawn from a bounded set
\* ---------------------------------------------------------------------

\* The most parts a Website text is put together from.
MaxUrlParts == 3

UpperWww == <<"W", "W", "W", ".">>

PathPart == <<"/", "x">>

QueryPart == <<"?", "q">>

Blank == <<" ">>

\* The pieces canonical_domain looks for, and a host.
UrlParts == {HttpScheme, HttpsScheme, WwwPrefix, UpperWww, DomA, PathPart, QueryPart, Blank}

RECURSIVE Flatten(_)
Flatten(parts) == IF parts = <<>> THEN <<>> ELSE Head(parts) \o Flatten(Tail(parts))

\* Every text made of at most MaxUrlParts pieces, in any order.
UrlTexts == UNION {{Flatten(c) : c \in [1..n -> UrlParts]} : n \in 0..MaxUrlParts}

CandWithWebsite(u) ==
    [Company |-> "Acme", CompanyName |-> "", company |-> "", Website |-> u,
     Industry |-> IndFleet, EmployeeCount |-> Emp100]

InitCanon ==
    /\ pc = "canonicalize"
    /\ budget = 0
    /\ now = FirstInstant
    /\ week = StrfDate(FirstInstant)
    /\ ledger = LedgerFile(<<>>)
    /\ sheet = [Evan |-> <<>>, Dave |-> <<>>]
    /\ prior = <<UnreadablePrior, UnreadablePrior>>
    /\ \E u \in UrlTexts : candidates = <<CandWithWebsite(u)>>
    /\ df = <<>> /\ history_df = EmptyFrame /\ enriched = <<>> /\ scored = <<>>
    /\ deduped = <<>> /\ df_en = <<>> /\ top100 = <<>> /\ evan_rows = <<>>
    /\ dave_rows = <<>>
    /\ people = <<>> /\ dm = NoPerson
    /\ ledger0 = ledger
    /\ sheet0 = sheet
    /\ completedWeeks = {}
    /\ datedRuns = TRUE

\* Lines 278-284 on the frame read at line 277.
main_canonicalize ==
    /\ pc = "canonicalize"
    /\ df' = load_candidates(candidates, read_prior_domains(prior))
    /\ history_df' = load_assignment_history(ledger)
    /\ pc' = "enrich"
    /\ UNCHANGED <<people, dm, budget, now, week, ledger, sheet, prior, enriched, scored, deduped,
                   df_en, top100, evan_rows, dave_rows, candidates, ledger0, sheet0,
                   completedWeeks,
                   datedRuns>>

NextCanon == main_canonicalize

SpecCanon == InitCanon /\ [][NextCanon]_vars

\* ---------------------------------------------------------------------
\* pick_decision_maker on its own: main() at line 310 with `people` given
\* ---------------------------------------------------------------------

\* The longest list of people handed to pick_decision_maker.
MaxPeople == 3

TitleDirectorOfFleetLower == <<"d", "i", "r", "e", "c", "t", "o", "r", " ", "o", "f", " ", "f", "l", "e", "e", "t">>

TitleOpsMgr == <<"O", "p", "e", "r", "a", "t", "i", "o", "n", "s", " ", "M", "a", "n", "a", "g", "e", "r">>

TitleServiceAdvisor == <<"S", "e", "r", "v", "i", "c", "e", " ", "A", "d", "v", "i", "s", "o", "r">>

TitleHeadChef == <<"H", "e", "a", "d", " ", "C", "h", "e", "f">>

\* Titles: target roles of different rank (one in lower case), a title
\* that holds "vice" only inside another word, a generic senior title, a
\* title with no keyword, and a person without a title.
PickTitles ==
    {TitleFleetMgr, TitleDirectorOfFleetLower, TitleOpsMgr, TitleServiceAdvisor,
     TitleHeadChef, TitleIntern, PyNone}

\* The e-mail of the person at each position, to tell the people apart.
PositionEmails == <<"p1@x", "p2@x", "p3@x", "p4@x", "p5@x">>

PersonAt(i, title) ==
    [present |-> TRUE, title |-> title, email |-> PositionEmails[i], phone |-> PyNoneStr,
     direct_phone |-> PyNoneStr]

PickLists ==
    UNION {{[i \in 1..n |-> PersonAt(i, c[i])] : c \in [1..n -> PickTitles]} :
             n \in 0..MaxPeople}

InitPick ==
    /\ InitAt("pick")
    /\ enriched = <<>>
    /\ df_en = <<>>

\* dm = pick_decision_maker(people) if people else None
main_pick ==
    /\ pc = "pick"
    /\ \E l \in PickLists :
         /\ people' = l
         /\ dm' = IF l # <<>> THEN pick_decision_maker(l) ELSE NoPerson
    /\ pc' = "picked"
    /\ UNCHANGED <<budget, now, week, ledger, sheet, prior, locals, ledger0, sheet0,
                   completedWeeks,
                   datedRuns>>

NextPick == main_pick

SpecPick == InitPick /\ [][NextPick]_vars

\* ---------------------------------------------------------------------
\* Weekly runs one after the other, from an empty readable ledger
\* ---------------------------------------------------------------------

UrlTripleWww == <<"w", "w", "w", ".", "w", "w", "w", ".", "w", "w", "w", ".", "a", ".", "c", "o">>

CandTripleWww ==
    [Company |-> "Acme", CompanyName |-> "", company |-> "", Website |-> UrlTripleWww,
     Industry |-> IndFleet, EmployeeCount |-> Emp100]

\* candidates.csv of the weekly runs: header only, one row, two rows.
WeeklyFiles == {<<>>, <<CandAcmeWeb>>, <<CandTripleWww>>, <<CandAcmeWeb, CandBeta>>,
                <<CandBeta, CandNoSite>>}

InitWeeks ==
    /\ InitWith(MaxRuns)
    /\ ledger = LedgerFile(<<>>)
    /\ prior = <<UnreadablePrior, UnreadablePrior>>

main_load_weekly == main_load_from(WeeklyFiles)

NextWeeks ==
    \/ StartRun
    \/ main_not_scheduled
    \/ main_already_ran
    \/ main_no_candidates
    \/ main_load_weekly
    \/ main_enrich
    \/ main_score_dedup
    \/ main_filter_crash
    \/ main_history_filter
    \/ main_allocate
    \/ append_evan_exit
    \/ append_evan
    \/ append_dave
    \/ main_write_history
    \/ EndRun

SpecWeeks == InitWeeks /\ [][NextWeeks]_vars

\* ---------------------------------------------------------------------
\* Properties
\* ---------------------------------------------------------------------

\* What the current run has appended to a tab so far.
AppendedTo(tab) == SubSeq(sheet[tab], Len(sheet0[tab]) + 1, Len(sheet[tab]))

IsDataRow(r) == r.kind = "data"

\* The data rows the current run has emitted to the two buckets.
EmittedRows == SelectSeq(AppendedTo("Evan") \o AppendedTo("Dave"), IsDataRow)

\* The records the finished run has added beneath the ones it read.
NewRecords ==
    SubSeq(ledger.rows, Len(load_assignment_history(ledger0).rows) + 1, Len(ledger.rows))

AfterFilter == {"allocate", "appendEvan", "appendDave", "history", "done"}

\* C1: once a run of main() stamped W has run to the end, a later run with
\* the same W appends nothing to either tab and leaves the ledger as it was.
C1_IdempotentPerWeek ==
    (pc # "idle" /\ week \in completedWeeks) => (sheet = sheet0 /\ ledger = ledger0)

RecordOf(e, rec) ==
    /\ rec.Domain = e.Domain
    /\ rec.CompanyName = e.CompanyName
    /\ rec.AssignedRep = e.AssignedRep
    /\ rec.WeekAssigned = week

\* C2: after a completed run the emitted rows and the records the run added
\* correspond one to one: every emitted row has exactly one new record with
\* its domain, company, owner and the run's week, and every new record
\* belongs to exactly one emitted row.
C2_RoundTrip ==
    pc = "done" =>
      /\ \A i \in 1..Len(EmittedRows) :
           Cardinality({j \in 1..Len(NewRecords) :
                          RecordOf(EmittedRows[i], NewRecords[j])}) = 1
      /\ \A j \in 1..Len(NewRecords) :
           Cardinality({i \in 1..Len(EmittedRows) :
                          RecordOf(EmittedRows[i], NewRecords[j])}) = 1

\* A completed run that emitted a row to each bucket, beneath an older record.
C2_Witness ==
    /\ pc = "done"
    /\ Len(evan_rows) >= 1 /\ Len(dave_rows) >= 1
    /\ Len(EmittedRows) = 2 /\ Len(NewRecords) = 2
    /\ Len(ledger.rows) > 2

\* C3: the ledger is append-only: every record that was in the file when
\* the run started is in the file, unchanged, when the run has written it.
C3_AppendOnly ==
    pc = "done" =>
      \A i \in 1..Len(ledger0.rows) :
         \E j \in 1..Len(ledger.rows) : ledger.rows[j] = ledger0.rows[i]

\* The ledger file holds a record for domain d dated at or after t - 365 days.
LedgerHoldsRecent(file, d, t) ==
    /\ file.exists
    /\ \E i \in 1..Len(file.rows) :
         /\ canonical_domain(file.rows[i].Domain) = d
         /\ file.rows[i].WeekAssigned.form # "bad"
         /\ Instant(file.rows[i].WeekAssigned.day, 0) >= t - Instant(365, 0)

InAllocation(r) == \E j \in 1..Len(df_en) : df_en[j].idx = r.idx

\* C4: once the rolling exclusion has been applied, a candidate with a
\* non-empty domain d is missing from the allocation if and only if the
\* ledger holds a record for d dated at or after now - 365 days; a domain
\* with older records only, or with no record, is never removed.
C4_RollingExclusion ==
    pc \in AfterFilter \cup {"crashed"} =>
      \A i \in 1..Len(deduped) :
         Truthy(deduped[i].Domain) =>
            (~InAllocation(deduped[i]) <=> LedgerHoldsRecent(ledger0, deduped[i].Domain, now))

\* The cells of the Website and Domain columns of a legacy dataset.
LegacyCells(f) ==
    IF ~f.readable THEN {}
    ELSE (IF f.hasWebsite THEN {f.Website[i] : i \in 1..Len(f.Website)} ELSE {})
         \cup (IF f.hasDomain THEN {f.Domain[i] : i \in 1..Len(f.Domain)} ELSE {})

ListedInLegacy(d) ==
    \E k \in 1..Len(prior) : \E cell \in LegacyCells(prior[k]) : canonical_domain(cell) = d

C6_DedupKeepsBest ==
    pc = "filter" =>
      \A i \in 1..Len(scored) :
         LET group == {j \in 1..Len(scored) : SamePair(scored[j], scored[i])}
             kept  == {k \in 1..Len(deduped) : SamePair(deduped[k], scored[i])}
         IN  /\ Cardinality(kept) = 1
             /\ \A k \in kept :
                  /\ \E j \in group : scored[j] = deduped[k]
                  /\ \A j \in group : deduped[k].FitScore >= scored[j].FitScore

\* A frame with a pair held by two rows of different FitScore and a third
\* row whose pair is unique.
C6_Witness ==
    /\ pc = "filter"
    /\ Len(scored) = 3 /\ Len(deduped) = 2
    /\ \E i, j \in 1..Len(scored) :
         /\ SamePair(scored[i], scored[j])
         /\ scored[i].FitScore > scored[j].FitScore

SurvivesDedup(r) == \E k \in 1..Len(deduped) : deduped[k].idx = r.idx

\* C7: an empty canonical domain never causes suppression: a row with an
\* empty domain is never dropped as the duplicate of another row with an
\* empty domain, and is removed neither by the permanent nor by the rolling
\* exclusion.
C7_EmptyDomainNeverSuppresses ==
    /\ pc \in AfterFilter \cup {"filter"} =>
         \A i \in 1..Len(scored) : ~Truthy(scored[i].Domain) => SurvivesDedup(scored[i])
    /\ pc \in AfterFilter \cup {"enrich", "score", "filter"} =>
         \A i \in 1..Len(candidates) :
            ~Truthy(CandidateDomain(candidates[i])) => \E k \in 1..Len(df) : df[k].idx = i
    /\ pc \in AfterFilter =>
         \A i \in 1..Len(deduped) : ~Truthy(deduped[i].Domain) => InAllocation(deduped[i])

\* C8: the split alternates over the positions of the batch (position 0 to
\* Evan, position 1 to Dave, ...), each bucket holds the rows of its
\* positions in order, the two buckets differ in size by at most 1 and no
\* candidate is in both.
C8_Alternation ==
    pc = "appendEvan" =>
      /\ \A i \in 1..Len(top100) :
           top100[i].AssignedRep = (IF i % 2 = 1 THEN "Evan" ELSE "Dave")
      /\ Len(evan_rows) - Len(dave_rows) \in {-1, 0, 1}
      /\ Len(evan_rows) + Len(dave_rows) = Len(top100)
      /\ \A k \in 1..Len(evan_rows) :
           /\ evan_rows[k].Domain = top100[2 * k - 1].Domain
           /\ evan_rows[k].AssignedRep = "Evan"
      /\ \A k \in 1..Len(dave_rows) :
           /\ dave_rows[k].Domain = top100[2 * k].Domain
           /\ dave_rows[k].AssignedRep = "Dave"
      /\ \A i \in 1..Len(evan_rows) : \A j \in 1..Len(dave_rows) :
           evan_rows[i].Domain # dave_rows[j].Domain

\* A batch of odd size cut from a longer frame.
C8_Witness ==
    /\ pc = "appendEvan"
    /\ Len(top100) = 99
    /\ Len(evan_rows) = 50 /\ Len(dave_rows) = 49

IndustryBonus(r) ==
    IF r.Industry # PyNone /\ \E kw \in IndustryKeywords : Contains(Lower(r.Industry), kw)
    THEN 30 ELSE 0

ContactBonus(r) ==
    LET mail  == r.DM1_Email \notin {PyNoneStr, ""}
        phone == r.DM1_DirectPhone \notin {PyNoneStr, ""}
    IN  IF mail /\ phone THEN 30 ELSE IF mail \/ phone THEN 10 ELSE 0

ParsesAsNumber(r) == Truthy(r.EmployeeCount) /\ ~PyFloat(r.EmployeeCount).raised

EmployeeTier(n) == IF n >= 100 THEN 25 ELSE IF n >= 50 THEN 10 ELSE 0

\* C9: FitScore is an integer in [0,100], and for a row whose EmployeeCount
\* parses as a number n it is min(100, I + E + C): I = 30 for an industry
\* with a relevant-sector keyword, E = 25 / 10 / 0 for n >= 100 / 50 <= n <
\* 100 / n < 50, C = 30 / 10 / 0 for both / one / none of e-mail and phone.
\* Fleet Logistics, 120 employees, e-mail and phone gives 85.
C9_FitScoreFormula ==
    pc = "filter" =>
      \A i \in 1..Len(scored) :
         LET r == scored[i]
         IN  /\ r.FitScore \in 0..100
             /\ ParsesAsNumber(r) =>
                  r.FitScore = Min(100, IndustryBonus(r)
                                        + EmployeeTier(PyFloat(r.EmployeeCount).val)
                                        + ContactBonus(r))
             /\ (r.Industry = IndFleetLogistics /\ r.EmployeeCount = Emp120
                 /\ r.DM1_Email = "m@x" /\ r.DM1_DirectPhone = "555") => r.FitScore = 85

\* The scored row of exactly 100 employees with a matching industry and a
\* full contact.
C9_Witness ==
    /\ pc = "filter"
    /\ Len(scored) = 1
    /\ scored[1].EmployeeCount = Emp100
    /\ scored[1].Industry = IndTransportation
    /\ scored[1].DM1_Email = "m@x" /\ scored[1].DM1_DirectPhone = "555"
    /\ scored[1].FitScore = 85

\* C10 as claimed: the employee tier is +5 whenever EmployeeCount is
\* missing, empty or not parseable as a number.
C10_FallbackTier ==
    pc = "filter" =>
      \A i \in 1..Len(scored) :
         LET r == scored[i]
         IN  ~ParsesAsNumber(r) => r.FitScore = IndustryBonus(r) + 5 + ContactBonus(r)

\* C10 as amended: the employee tier is +5 exactly when EmployeeCount is a
\* non-empty text that float() rejects (not-a-number with an industry match
\* and a full contact gives 65); a missing or empty EmployeeCount counts as
\* 0 employees and adds nothing.
C10_FallbackTierAmended ==
    pc = "filter" =>
      \A i \in 1..Len(scored) :
         LET r == scored[i]
         IN  /\ (Truthy(r.EmployeeCount) /\ ~ParsesAsNumber(r))
                  => r.FitScore = IndustryBonus(r) + 5 + ContactBonus(r)
             /\ ~Truthy(r.EmployeeCount)
                  => r.FitScore = IndustryBonus(r) + ContactBonus(r)
             /\ (r.Industry = IndFleetLogistics /\ r.EmployeeCount = EmpNotANumber
                 /\ r.DM1_Email = "m@x" /\ r.DM1_DirectPhone = "555") => r.FitScore = 65

\* The spec's example row, scored 65, and in the same state space the
\* empty field: the witness is the example row.
C10_Witness ==
    /\ pc = "filter"
    /\ Len(scored) = 1
    /\ scored[1].Industry = IndFleetLogistics
    /\ scored[1].EmployeeCount = EmpNotANumber
    /\ scored[1].DM1_Email = "m@x" /\ scored[1].DM1_DirectPhone = "555"
    /\ scored[1].FitScore = 65

\* A canonical domain as the normaliser promises it: no scheme, no leading
\* "www.", no path and no query.
IsCanonicalForm(d) ==
    /\ ~StartsWith(d, HttpScheme) /\ ~StartsWith(d, HttpsScheme)
    /\ ~StartsWith(d, WwwPrefix)
    /\ \A i \in 1..Len(d) : d[i] \notin {"/", "?"}

\* C11: canonical_domain is idempotent: for every candidate row the domain
\* main() gets by normalising the already normalised Domain column equals
\* that column, the normalised text has no scheme, no leading "www.", no
\* path and no query, and a non-string gives the empty string.
C11_Idempotent ==
    /\ canonical_domain(PyNone) = <<>>
    /\ pc = "enrich" =>
         \A i \in 1..Len(df) :
            /\ df[i].canonical_domain = df[i].Domain
            /\ df[i].Domain = canonical_domain(df[i].src.Website)
            /\ IsCanonicalForm(df[i].Domain)

\* The four generic seniority words of the written rule 2.
WrittenGenericWords ==
    { <<"d", "i", "r", "e", "c", "t", "o", "r">>, <<"v", "p">>, <<"h", "e", "a", "d">>,
      <<"m", "a", "n", "a", "g", "e", "r">> }

LoweredTitle(p) == IF p.title = PyNone THEN <<>> ELSE Lower(p.title)

\* The three ranked rules, with `words` as the generic words of rule 2.
PickedByRankedRules(words) ==
    pc = "picked" =>
      IF people = <<>> THEN dm = NoPerson
      ELSE
        LET n == Len(people)
            role(k, j) == Contains(LoweredTitle(people[j]), Lower(TITLE_KEYWORDS[k]))
            generic(j) == \E x \in words : Contains(LoweredTitle(people[j]), x)
        IN  \E i \in 1..n :
              /\ dm = people[i]
              /\ IF \E k \in 1..Len(TITLE_KEYWORDS), j \in 1..n : role(k, j)
                 THEN \E k \in 1..Len(TITLE_KEYWORDS) :
                        /\ role(k, i)
                        /\ \A j \in 1..(i - 1) : ~role(k, j)
                        /\ \A k2 \in 1..(k - 1), j \in 1..n : ~role(k2, j)
                 ELSE IF \E j \in 1..n : generic(j)
                 THEN generic(i) /\ \A j \in 1..(i - 1) : ~generic(j)
                 ELSE i = 1

\* C12 as written: pick_decision_maker returns one person of a non-empty
\* list by (1) the first target role in TITLE_KEYWORDS order that any title
\* holds, first such person; (2) else the first person whose title holds
\* "director", "vp", "head" or "manager"; (3) else the first person; an
\* empty list gives no contact.
C12_RankedRules == PickedByRankedRules(WrittenGenericWords)

\* C12 amended: the same three rules with the generic words of rule 2
\* being "director", "vp", "vice", "head" and "manager".
C12_RankedRulesAmended == PickedByRankedRules(GenericTitleWords)

\* Rule 2 picks the second person for "vice" inside "Service Advisor"
\* when nobody holds a target role.
C12_Witness ==
    /\ pc = "picked"
    /\ Len(people) = 2
    /\ people[1].title = TitleIntern
    /\ people[2].title = TitleServiceAdvisor
    /\ dm = people[2]

\* C13: whenever a run ends with SystemExit (candidates.csv missing, or
\* the service-account JSON absent or invalid) no row has been appended to
\* either tab and the ledger file is as it was when the run started.
C13_AbortBeforeMutation ==
    pc = "exit" => (sheet = sheet0 /\ ledger = ledger0)

\* A run that built a non-empty batch and then stopped on the credentials.
C13_Witness ==
    /\ pc = "exit"
    /\ top100 # <<>>
    /\ evan_rows # <<>>
    /\ ledger0.rows # <<>>

\* The ledger records, as the current run found them, that are dated
\* within 365 days before now.
RecordsWithinWindow ==
    {i \in 1..Len(ledger0.rows) :
       /\ ~ToDatetime(ledger0.rows[i].WeekAssigned).nat
       /\ ToDatetime(ledger0.rows[i].WeekAssigned).at <= now
       /\ now - ToDatetime(ledger0.rows[i].WeekAssigned).at <= Instant(WINDOW_DAYS, 0)}

\* C14: when every completed run so far and the current run are stamped
\* with their own UTC date and the ledger is readable, the current run
\* emits no row for a non-empty domain that holds a ledger record dated
\* within 365 days before the run's current time.
C14_NoReassignmentWithinWindow ==
    (datedRuns /\ week = StrfDate(now) /\ ledger0.exists /\ ledger0.hasDomainCol) =>
      \A i \in RecordsWithinWindow :
         Truthy(ledger0.rows[i].Domain) =>
           \A k \in 1..Len(EmittedRows) : EmittedRows[k].Domain # ledger0.rows[i].Domain

\* C15: the batch is the first min(100, n) rows of the n filtered rows,
\* which are in FitScore-descending order, so no row left out has a
\* strictly higher FitScore than a row of the batch; each bucket holds at
\* most 50 rows; every row of the batch is in one of the two buckets.
C15_Quota ==
    pc = "appendEvan" =>
      LET n == Len(df_en)
          m == Min(BATCH_SIZE, n)
      IN  /\ Len(top100) = m
          /\ \A i \in 1..m : top100[i].idx = df_en[i].idx
          /\ \A i \in 1..m : \A j \in (m + 1)..n : df_en[j].FitScore <= top100[i].FitScore
          /\ Len(evan_rows) <= BUCKET_CAP
          /\ Len(dave_rows) <= BUCKET_CAP
          /\ \A i \in 1..m :
               \/ \E k \in 1..Len(evan_rows) : evan_rows[k].Domain = top100[i].Domain
               \/ \E k \in 1..Len(dave_rows) : dave_rows[k].Domain = top100[i].Domain

\* A frame one row longer than the batch: the last row is left out and
\* both buckets are full.
C15_Witness ==
    /\ pc = "appendEvan"
    /\ Len(df_en) = BATCH_SIZE + 1
    /\ Len(top100) = BATCH_SIZE
    /\ Len(evan_rows) = BUCKET_CAP /\ Len(dave_rows) = BUCKET_CAP

\* The ledger records, as the current run found them, filed under domain d.
RecordsOf(d) ==
    {i \in 1..Len(ledger0.rows) : canonical_domain(ledger0.rows[i].Domain) = d}

HasMalformedDate(file) ==
    \E i \in 1..Len(file.rows) : file.rows[i].WeekAssigned.form = "bad"

\* C16: with a readable ledger that holds a record whose date cannot be
\* parsed, the history filter does not raise on the candidates it is given,
\* and a candidate whose domain has only such records stays in the
\* allocation.
C16_MalformedDatesIgnored ==
    (pc \in AfterFilter \cup {"crashed"} /\ history_df.hasDomain /\ HasMalformedDate(ledger0)) =>
      /\ deduped # <<>> => pc # "crashed"
      /\ \A i \in 1..Len(deduped) :
           (/\ Truthy(deduped[i].Domain)
            /\ RecordsOf(deduped[i].Domain) # {}
            /\ \A j \in RecordsOf(deduped[i].Domain) :
                 ledger0.rows[j].WeekAssigned.form = "bad")
           => InAllocation(deduped[i])

\* The filter has run on a candidate whose domain has one record, with a
\* date that cannot be parsed, and has kept it.
C16_Witness ==
    /\ pc \in AfterFilter
    /\ history_df.hasDomain
    /\ \E i \in 1..Len(deduped) :
         /\ Truthy(deduped[i].Domain)
         /\ RecordsOf(deduped[i].Domain) # {}
         /\ \A j \in RecordsOf(deduped[i].Domain) :
              ledger0.rows[j].WeekAssigned.form = "bad"
         /\ InAllocation(deduped[i])

====
